---- MODULE Spec2Model ----
(***************************************************************************)
(* Model of the Claude API proxy function (src/src/main.js).               *)
(*                                                                         *)
(* main.js holds two entrypoints with the same validation sequence: the    *)
(* raw-messages handler (lines 21-225) and the analytics handler (lines    *)
(* 247-461) with its prompt renderer generateAnalyticsPrompt (467-535).    *)
(* One request is followed from its arrival to its response; the variable  *)
(* variant says which of the two handlers serves it.                       *)
(*                                                                         *)
(* JavaScript values are tagged records [t |-> <typeof>, ...].  A string   *)
(* is [t |-> "string", v |-> <sequence of chunks>]: the string is the      *)
(* concatenation of the chunks, the empty string is the empty sequence,    *)
(* and startsWith is the prefix relation on chunks.  In feedback comments  *)
(* every chunk is one UTF-16 code unit.                                    *)
(***************************************************************************)
EXTENDS Integers, Sequences, FiniteSets, TLC

\* ------------------------------------------------------------------------
\* Bounds of the model
\* ------------------------------------------------------------------------
MaxProducts == 12
MaxComments == 22
MaxCommentLen == 202

\* ------------------------------------------------------------------------
\* JavaScript values
\* ------------------------------------------------------------------------
JUndef == [t |-> "undefined"]
JNull == [t |-> "null"]
JTrue == [t |-> "boolean", v |-> <<"true">>]
JFalse == [t |-> "boolean", v |-> <<"false">>]
Str(chunks) == [t |-> "string", v |-> chunks]
Num(digits) == [t |-> "number", v |-> digits]
Arr(items) == [t |-> "array", items |-> items]

\* JavaScript truthiness (the ! and || operators of the handlers)
Truthy(x) ==
  CASE x.t \in {"undefined", "null"} -> FALSE
    [] x.t = "string" -> x.v # <<>>
    [] x.t = "number" -> x.v # <<"0">>
    [] x.t = "boolean" -> x.v = <<"true">>
    [] OTHER -> TRUE

\* a || b
OrElse(a, b) == IF Truthy(a) THEN a ELSE b

IsPrefix(p, s) == Len(p) <= Len(s) /\ SubSeq(s, 1, Len(p)) = p

\* x?.startsWith(prefix) for a header or environment value x
startsWith(x, prefix) == x.t = "string" /\ IsPrefix(prefix, x.v)

\* JSON.parse over the texts that occur in the model: the parsed value, or
\* SyntaxError when the text is not JSON
SyntaxError == [t |-> "SyntaxError"]
MessageList == Arr(<<[t |-> "object", role |-> Str(<<"user">>), content |-> Str(<<"Hello">>)]>>)
SmallData ==
  [t |-> "object",
   productSales |-> Arr(<<[productName |-> 1, timesOrdered |-> 3, totalRevenue |-> 12345,
                           averageRating |-> 4250, feedbackCount |-> 2]>>),
   feedbackComments |-> Arr(<<Str(<<"o", "k">>)>>),
   topSellerIssues |-> JUndef]
BrokenData ==
  [t |-> "object", productSales |-> JNull, feedbackComments |-> Arr(<<>>),
   topSellerIssues |-> JUndef]
RequestObject(rid, msgs, data, model, maxTokens) ==
  [t |-> "object", restaurantId |-> rid, messages |-> msgs, analyticsData |-> data,
   model |-> model, max_tokens |-> maxTokens]
FullBody == RequestObject(Str(<<"r1">>), MessageList, SmallData, JUndef, JUndef)
SettingsObject(flag) == [t |-> "object", aiAnalyticsEnabled |-> flag]
Overloaded ==
  [t |-> "object",
   error |-> [t |-> "object", message |-> Str(<<"Overloaded">>)]]
NoMessage == [t |-> "object", error |-> JUndef]
EmptyMessage == [t |-> "object", error |-> [t |-> "object", message |-> Str(<<>>)]]
Completion == [t |-> "object", error |-> JUndef, content |-> Str(<<"insights">>)]

JSONParse(text) ==
  CASE text = <<"null">> -> JNull
    [] text = <<"1">> -> Num(<<"1">>)
    [] text = <<"{}">> -> SettingsObject(JUndef)
    [] text = <<"{\"aiAnalyticsEnabled\":true}">> -> SettingsObject(JTrue)
    [] text = <<"{\"aiAnalyticsEnabled\":false}">> -> SettingsObject(JFalse)
    [] text = <<"{\"aiAnalyticsEnabled\":\"true\"}">> -> SettingsObject(Str(<<"true">>))
    [] text = <<"{\"aiAnalyticsEnabled\":1}">> -> SettingsObject(Num(<<"1">>))
    [] text = <<"{\"restaurantId\":\"r1\",...}">> -> FullBody
    [] text = <<"{\"error\":{\"message\":\"Overloaded\"}}">> -> Overloaded
    [] text = <<"{\"type\":\"error\"}">> -> NoMessage
    [] text = <<"{\"error\":{\"message\":\"\"}}">> -> EmptyMessage
    [] text = <<"{\"content\":\"insights\"}">> -> Completion
    [] OTHER -> SyntaxError

\* Property access obj.aiAnalyticsEnabled on a parsed value: undefined on a
\* primitive, a TypeError on null
TypeError == [t |-> "TypeError"]
GetFlag(settings) ==
  CASE settings.t = "null" -> TypeError
    [] settings.t = "object" -> settings.aiAnalyticsEnabled
    [] OTHER -> JUndef

\* ------------------------------------------------------------------------
\* State
\* ------------------------------------------------------------------------
VARIABLES
  variant,      \* "messages" or "analytics": which handler serves the request
  req,          \* the request: method, headers, body
  env,          \* process.env.CLAUDE_API_KEY
  pc,           \* position of the handler
  userDoc,      \* the fetched user record
  restaurant,   \* the fetched restaurant document
  upstream,     \* the upstream response: status and body text
  err,          \* the exception on its way to the outer catch
  calls,        \* external calls issued so far, in order
  outbound,     \* payload of the upstream call
  steps,        \* validation steps run so far, in order
  failedAt,     \* the validation step that failed, "none" before
  responses,    \* responses returned so far, in order
  data,         \* input of generateAnalyticsPrompt
  prompt        \* the rendered prompt

vars == <<variant, req, env, pc, userDoc, restaurant, upstream, err, calls,
          outbound, steps, failedAt, responses, data, prompt>>

\* ------------------------------------------------------------------------
\* generateAnalyticsPrompt (main.js 467-535).  Numbers of the analytics
\* payload are non-negative and counted in thousandths.  The rendered prompt
\* is kept as its three sections that depend on lists of the payload; the
\* fixed template text around them is left out.
\* ------------------------------------------------------------------------
ProductCap == 10
CommentCap == 20
CommentMaxChars == 200

Min(a, b) == IF a < b THEN a ELSE b

\* slice that ignores its end
slice_Uncapped(s, from, to) == SubSeq(s, from + 1, Len(s))

\* Array.prototype.slice(from, to) and String.prototype.substring(from, to)
\* for 0 <= from <= to
slice(s, from, to) == SubSeq(s, from + 1, Min(to, Len(s)))

Pow10(d) == CASE d = 0 -> 1 [] d = 1 -> 10 [] d = 2 -> 100 [] OTHER -> 1000

\* Number.prototype.toFixed(d) of x thousandths, d <= 3: the integer part and
\* the d decimals, rounded half up
toFixed(x, d) ==
  LET scale == Pow10(3 - d)
      r == (x + (scale \div 2)) \div scale
  IN  [whole |-> r \div Pow10(d), decimals |-> r % Pow10(d), places |-> d]

\* String(c)
String(c) ==
  CASE c.t = "string" -> c.v
    [] c.t = "number" -> c.v
    [] c.t = "null" -> <<"n", "u", "l", "l">>
    [] OTHER -> <<"u", "n", "d", "e", "f", "i", "n", "e", "d">>

\* A property of the payload; destructuring a primitive yields undefined
Prop(d, name) == IF d.t = "object" THEN d[name] ELSE JUndef

\* const { productSales = [], feedbackComments = [], topSellerIssues } = data
productSalesOf(d) ==
  IF Prop(d, "productSales").t = "undefined" THEN Arr(<<>>) ELSE Prop(d, "productSales")
feedbackCommentsOf(d) ==
  IF Prop(d, "feedbackComments").t = "undefined" THEN Arr(<<>>)
  ELSE Prop(d, "feedbackComments")

\* The renderer throws a TypeError when a list is not an array: .slice or
\* .map is missing on the value (an empty string or a number for the
\* comments has no positive length and is skipped)
PromptThrows(d) ==
  \/ productSalesOf(d).t # "array"
  \/ /\ feedbackCommentsOf(d).t # "array"
     /\ feedbackCommentsOf(d).t \in {"null", "string"}
     /\ feedbackCommentsOf(d) # Str(<<>>)

productLine(p, i) ==
  [index |-> i + 1,
   productName |-> p.productName,
   timesOrdered |-> p.timesOrdered,
   revenue |-> toFixed(p.totalRevenue, 2),
   rating |-> IF p.averageRating # 0
              THEN <<[stars |-> toFixed(p.averageRating, 1), reviews |-> p.feedbackCount]>>
              ELSE <<>>]

\* productSales.slice(0, 10).map((p, i) => ...)
productsText(d) ==
  LET top == slice(productSalesOf(d).items, 0, ProductCap)
  IN  [i \in 1..Len(top) |-> productLine(top[i], i - 1)]

commentLine(c, i) == [index |-> i + 1, text |-> slice(String(c), 0, CommentMaxChars)]

\* feedbackComments.slice(0, 20).map((c, i) => ...), '' for an empty list
commentsText(d) ==
  LET all == feedbackCommentsOf(d)
      sample == IF all.t = "array" THEN slice(all.items, 0, CommentCap) ELSE <<>>
  IN  [i \in 1..Len(sample) |-> commentLine(sample[i], i - 1)]

issuesText(d) ==
  LET issue == Prop(d, "topSellerIssues")
  IN  IF Truthy(issue)
      THEN <<[productName |-> issue.productName, rating |-> toFixed(issue.rating, 1)]>>
      ELSE <<>>

NoPrompt == [t |-> "undefined"]
generateAnalyticsPrompt(d) ==
  [t |-> "string",
   productsText |-> productsText(d),
   commentsText |-> commentsText(d),
   issuesText |-> issuesText(d)]

\* ------------------------------------------------------------------------
\* Inputs of the renderer
\* ------------------------------------------------------------------------
Alphabet == <<"a", "b", "c">>
CommentLens == {0, 1, CommentMaxChars - 1, CommentMaxChars, CommentMaxChars + 1, MaxCommentLen}

MakeProduct(i) ==
  [productName |-> i, timesOrdered |-> (i * 3) % 5, totalRevenue |-> i * 1234,
   averageRating |-> (i % 3) * 1550, feedbackCount |-> i % 2]

\* n products, in ascending or descending order of their names
MakeProducts(n, rev) == [i \in 1..n |-> MakeProduct(IF rev THEN n + 1 - i ELSE i)]

\* comment i: odd ones have len code units, even ones three; with mixed, the
\* third comment is a number
MakeComment(i, len, mixed) ==
  IF mixed /\ i = 3 THEN Num(<<"4", "2">>)
  ELSE Str([k \in 1..(IF i % 2 = 1 THEN len ELSE 3) |-> Alphabet[((i + k) % 3) + 1]])
MakeComments(m, len, mixed) == [i \in 1..m |-> MakeComment(i, len, mixed)]

PromptInputs ==
  { [t |-> "object",
     productSales |-> Arr(MakeProducts(n, rev)),
     feedbackComments |-> Arr(MakeComments(m, len, rev)),
     topSellerIssues |-> IF rev THEN [t |-> "object", productName |-> 1, rating |-> 2150]
                         ELSE JUndef] :
    n \in 0..MaxProducts, m \in 0..MaxComments, len \in CommentLens, rev \in BOOLEAN }


\* ------------------------------------------------------------------------
\* The request and the services around the handler
\* ------------------------------------------------------------------------
QuickServe == <<"https://quickserve.io">>
User1 == Str(<<"u1">>)
User2 == Str(<<"u2">>)

Methods == {"OPTIONS", "POST", "GET"}
OriginValues == {JUndef, Str(<<>>), Str(QuickServe), Str(<<"https://evil.example">>)}
RefererValues == {JUndef, Str(<<"http://localhost:5173", "/menu">>),
                  Str(<<"https://evil.example", "/page">>)}
UserIdValues == {JUndef, Str(<<>>), User1}

Bodies ==
  { JUndef,
    Str(<<"{not json">>),
    Str(<<"null">>),
    Str(<<"{\"restaurantId\":\"r1\",...}">>),
    FullBody,
    RequestObject(JUndef, MessageList, SmallData, JUndef, JUndef),
    RequestObject(Str(<<"r1">>), Arr(<<>>), JUndef, JUndef, JUndef),
    RequestObject(Str(<<"r1">>), Str(<<"Hello">>), BrokenData, JUndef, JUndef),
    RequestObject(Str(<<"r2">>), MessageList, Str(<<"text">>),
                  Str(<<"claude-3-haiku">>), Num(<<"5", "0">>)) }

Requests ==
  { [method |-> m,
     headers |-> [origin |-> o, referer |-> r, userId |-> u],
     body |-> b] :
    m \in Methods, o \in OriginValues, r \in RefererValues, u \in UserIdValues,
    b \in Bodies }

ApiKeys == {JUndef, Str(<<>>), Str(<<"sk-ant-", "k1">>), Str(<<"sk-", "k1">>)}

\* Records of the users collection (messages handler) and of the Users
\* service (analytics handler)
UserDocs(v) ==
  IF v = "messages"
  THEN { [t |-> "object", subscription |-> sub, labels |-> JUndef] :
         sub \in {JUndef, Str(<<>>), Str(<<"starter">>), Str(<<"growth">>), Str(<<"pro">>),
                  Str(<<"free">>), Str(<<"pro", "fessional">>)} }
  ELSE { [t |-> "object", subscription |-> JUndef, labels |-> l] :
         l \in {JUndef, Arr(<<>>), Arr(<<Str(<<"planstarter">>)>>),
                Arr(<<Str(<<"plangrowth">>)>>), Arr(<<Str(<<"planpro">>)>>),
                Arr(<<Str(<<"admin">>)>>), Arr(<<Str(<<"admin">>), Str(<<"planpro">>)>>)} }

SettingsValues ==
  { JUndef, Str(<<>>), Str(<<"{}">>), Str(<<"{\"aiAnalyticsEnabled\":true}">>),
    Str(<<"{\"aiAnalyticsEnabled\":false}">>), Str(<<"{\"aiAnalyticsEnabled\":\"true\"}">>),
    Str(<<"{\"aiAnalyticsEnabled\":1}">>), Str(<<"null">>), Str(<<"1">>),
    Str(<<"{not json">>) }

Restaurants ==
  { [t |-> "object", ownerId |-> o, settings |-> s] :
    o \in {User1, User2}, s \in SettingsValues }

UpstreamStatuses == {200, 404, 529}
UpstreamTexts ==
  { <<"{\"content\":\"insights\"}">>, <<"{\"error\":{\"message\":\"Overloaded\"}}">>,
    <<"{\"type\":\"error\"}">>, <<"{\"error\":{\"message\":\"\"}}">>, <<"null">>,
    <<"<html>">> }
UpstreamResponses == { [status |-> st, text |-> tx] : st \in UpstreamStatuses, tx \in UpstreamTexts }

\* Exceptions: a code and a message
Error(code, message) == [code |-> code, message |-> Str(<<message>>)]
NoError == [code |-> JUndef, message |-> JUndef]
ThrownErrors ==
  { Error(JUndef, "failed"), Error(Num(<<"404">>), "not found"),
    Error(Str(<<"404">>), "gone") }

NoDoc == [t |-> "undefined"]
NoUpstream == [status |-> 0, text |-> <<>>]

\* ------------------------------------------------------------------------
\* Pieces of the handlers (main.js 21-225 and 247-461)
\* ------------------------------------------------------------------------
allowedOrigins == {QuickServe, <<"http://localhost:5173">>, <<"http://localhost:3000">>}

\* req.headers['origin'] || req.headers['referer']
origin(r) == OrElse(r.headers.origin, r.headers.referer)

isAllowed(r) == \E allowed \in allowedOrigins : startsWith(origin(r), allowed)

corsHeaders(r) ==
  [allowOrigin |-> IF isAllowed(r) THEN origin(r) ELSE Str(QuickServe),
   allowMethods |-> "POST, OPTIONS",
   allowHeaders |-> "Content-Type, X-Appwrite-Project, X-Appwrite-JWT"]
NoHeaders == [allowOrigin |-> JUndef, allowMethods |-> "", allowHeaders |-> ""]

\* res.send(text, status, headers) and res.json(body, status, headers)
Send(text, status, headers) ==
  [kind |-> "text", body |-> Str(text), status |-> status, headers |-> headers]
Json(body, status, headers) ==
  [kind |-> "json", body |-> body, status |-> status, headers |-> headers]

ErrorBody(error, message, details) ==
  [t |-> "object", error |-> error, message |-> message, details |-> details]
ErrorOnly(text) == ErrorBody(Str(<<text>>), JUndef, JUndef)
ErrorWithMessage(text, message) == ErrorBody(Str(<<text>>), Str(<<message>>), JUndef)

UpgradeMessage ==
  "Please subscribe to a plan (Starter, Growth, or Pro) to use AI-powered analytics"

\* typeof req.body === 'string' ? JSON.parse(req.body) : req.body
parsedBody(r) == IF r.body.t = "string" THEN JSONParse(r.body.v) ELSE r.body

\* const { restaurantId, ... } = body || {}
field(r, name) == IF Truthy(parsedBody(r)) THEN Prop(parsedBody(r), name) ELSE JUndef

validSubscriptions == {Str(<<"starter">>), Str(<<"growth">>), Str(<<"pro">>)}

includes(arr, x) == \E i \in 1..Len(arr.items) : arr.items[i] = x

\* subscriptionOf that takes any non-empty subscription and any label
subscriptionOf_AnyValue(v, doc) ==
  IF v = "messages"
  THEN IF Truthy(doc.subscription) THEN doc.subscription ELSE JUndef
  ELSE LET labels == OrElse(doc.labels, Arr(<<>>))
       IN  IF Len(labels.items) > 0 THEN labels.items[1] ELSE JNull

\* The recognized tier of a fetched user record, undefined or null when none
subscriptionOf(v, doc) ==
  IF v = "messages"
  THEN IF Truthy(doc.subscription) /\ doc.subscription \in validSubscriptions
       THEN doc.subscription ELSE JUndef
  ELSE LET labels == OrElse(doc.labels, Arr(<<>>))
       IN  CASE includes(labels, Str(<<"planstarter">>)) -> Str(<<"starter">>)
             [] includes(labels, Str(<<"plangrowth">>)) -> Str(<<"growth">>)
             [] includes(labels, Str(<<"planpro">>)) -> Str(<<"pro">>)
             [] OTHER -> JNull

\* restaurant.settings ? JSON.parse(restaurant.settings) : {}
parsedSettings(rest) ==
  IF Truthy(rest.settings) THEN JSONParse(rest.settings.v) ELSE SettingsObject(JUndef)

\* aiAnalyticsEnabled with a truthiness test in place of === true
aiAnalyticsEnabled_Loose(rest) ==
  LET settings == parsedSettings(rest)
  IN  IF settings = SyntaxError \/ GetFlag(settings) = TypeError THEN "throw"
      ELSE IF Truthy(GetFlag(settings)) THEN "true" ELSE "false"

\* Outcome of the try block around the settings (main.js 145-156, 378-389):
\* "throw" when JSON.parse or the property access throws, else whether
\* settings.aiAnalyticsEnabled === true
aiAnalyticsEnabled(rest) ==
  LET settings == parsedSettings(rest)
  IN  IF settings = SyntaxError \/ GetFlag(settings) = TypeError THEN "throw"
      ELSE IF GetFlag(settings) = JTrue THEN "true" ELSE "false"

\* apiKeyMissing without the test of the prefix
apiKeyMissing_NoPrefix(key) == ~Truthy(key)

\* !apiKey || !apiKey.startsWith('sk-ant-')
apiKeyMissing(key) == ~Truthy(key) \/ ~startsWith(key, <<"sk-ant-">>)

\* ok with client errors counted as success
ok_Below500(status) == status < 500

\* response.ok
ok(status) == status \in 200..299

\* Destructuring default: the default replaces undefined only
OrDefault(x, default) == IF x.t = "undefined" THEN default ELSE x

\* Body of the upstream call (main.js 187-191, 423-427)
payload(v, r, p) ==
  IF v = "messages"
  THEN [model |-> OrDefault(field(r, "model"), Str(<<"claude-3-5-sonnet-20241022">>)),
        max_tokens |-> OrDefault(field(r, "max_tokens"), Num(<<"2", "0", "0", "0">>)),
        messages |-> field(r, "messages")]
  ELSE [model |-> Str(<<"claude-sonnet-4-20250514">>),
        max_tokens |-> Num(<<"2", "0", "0", "0">>),
        messages |-> Arr(<<[t |-> "object", role |-> Str(<<"user">>), content |-> p]>>)]
NoPayload == [model |-> JUndef, max_tokens |-> JUndef, messages |-> JUndef]


\* ------------------------------------------------------------------------
\* The handler, one action per step
\* ------------------------------------------------------------------------
Init ==
  /\ variant \in {"messages", "analytics"}
  /\ req \in Requests
  /\ env \in ApiKeys
  /\ pc = "start"
  /\ userDoc = NoDoc
  /\ restaurant = NoDoc
  /\ upstream = NoUpstream
  /\ err = NoError
  /\ calls = <<>>
  /\ outbound = NoPayload
  /\ steps = <<>>
  /\ failedAt = "none"
  /\ responses = <<>>
  /\ data = JUndef
  /\ prompt = NoPrompt

\* return res.json(...) / res.send(...)
Return(resp) == responses' = Append(responses, resp) /\ pc' = "done"

\* A validation step that fails and returns, or passes on to the next step
Fail(step, resp) ==
  /\ steps' = Append(steps, step)
  /\ failedAt' = step
  /\ Return(resp)
Pass(step, next) ==
  /\ steps' = Append(steps, step)
  /\ pc' = next
  /\ UNCHANGED <<failedAt, responses>>

\* throw inside the outer try block
Throw(e) == err' = e /\ pc' = "catch"

\* Preflight that asks for the identity header
Preflight_Authenticated ==
  /\ pc = "start"
  /\ req.method = "OPTIONS"
  /\ IF ~Truthy(req.headers.userId)
     THEN Return(Json(ErrorOnly("Authentication required"), 401, corsHeaders(req)))
     ELSE Return(Send(<<>>, 200, corsHeaders(req)))
  /\ UNCHANGED <<variant, req, env, userDoc, restaurant, upstream, err, calls, outbound,
                 steps, failedAt, data, prompt>>

\* main.js 38-41, 264-267
Preflight ==
  /\ pc = "start"
  /\ req.method = "OPTIONS"
  /\ Return(Send(<<>>, 200, corsHeaders(req)))
  /\ UNCHANGED <<variant, req, env, userDoc, restaurant, upstream, err, calls, outbound,
                 steps, failedAt, data, prompt>>

\* main.js 43-46, 269-272
CheckMethod ==
  /\ pc = "start"
  /\ req.method # "OPTIONS"
  /\ IF req.method # "POST"
     THEN Fail("method", Json(ErrorOnly("Method not allowed"), 405, corsHeaders(req)))
     ELSE Pass("method", "auth")
  /\ UNCHANGED <<variant, req, env, userDoc, restaurant, upstream, err, calls, outbound,
                 data, prompt>>

\* CheckAuthentication without the check of the header
CheckAuthentication_Unchecked ==
  /\ pc = "auth"
  /\ Pass("identity", "parse")
  /\ UNCHANGED <<variant, req, env, userDoc, restaurant, upstream, err, calls, outbound,
                 data, prompt>>

\* main.js 49-54, 275-280
CheckAuthentication ==
  /\ pc = "auth"
  /\ IF ~Truthy(req.headers.userId)
     THEN Fail("identity", Json(ErrorOnly("Authentication required"), 401, corsHeaders(req)))
     ELSE Pass("identity", "parse")
  /\ UNCHANGED <<variant, req, env, userDoc, restaurant, upstream, err, calls, outbound,
                 data, prompt>>

\* main.js 62-68, 288-294
ParseBody ==
  /\ pc = "parse"
  /\ IF parsedBody(req) = SyntaxError
     THEN Fail("body", Json(ErrorOnly("Invalid JSON in request body"), 400, corsHeaders(req)))
     ELSE Pass("body", "validate")
  /\ UNCHANGED <<variant, req, env, userDoc, restaurant, upstream, err, calls, outbound,
                 data, prompt>>

\* !messages || !Array.isArray(messages) || messages.length === 0
messagesInvalid(m) == ~Truthy(m) \/ m.t # "array" \/ Len(m.items) = 0

\* main.js 70-81, 296-307
ValidateInput ==
  /\ pc = "validate"
  /\ IF ~Truthy(field(req, "restaurantId"))
     THEN Fail("fields", Json(ErrorOnly("restaurantId is required"), 400, corsHeaders(req)))
     ELSE IF variant = "messages" /\ messagesInvalid(field(req, "messages"))
     THEN Fail("fields", Json(ErrorOnly("messages array is required"), 400, corsHeaders(req)))
     ELSE IF variant = "analytics" /\ ~Truthy(field(req, "analyticsData"))
     THEN Fail("fields", Json(ErrorOnly("analyticsData is required"), 400, corsHeaders(req)))
     ELSE Pass("fields", "client")
  /\ UNCHANGED <<variant, req, env, userDoc, restaurant, upstream, err, calls, outbound,
                 data, prompt>>

\* main.js 83-89, 309-316: the Appwrite client is built, or its construction
\* throws
InitClient ==
  /\ pc = "client"
  /\ \/ pc' = "fetchUser" /\ UNCHANGED err
     \/ \E e \in ThrownErrors : Throw(e)
  /\ UNCHANGED <<variant, req, env, userDoc, restaurant, upstream, calls, outbound,
                 steps, failedAt, responses, data, prompt>>

\* FetchUser that tries a failed lookup a second time
FetchUser_Retry ==
  /\ pc = "fetchUser"
  /\ calls' = Append(calls, "user")
  /\ \/ \E doc \in UserDocs(variant) :
          /\ userDoc' = doc
          /\ Pass("user", "subscription")
     \/ /\ calls = <<>>
        /\ UNCHANGED <<pc, steps, failedAt, responses, userDoc>>
     \/ /\ calls # <<>>
        /\ Fail("user", Json(ErrorOnly("User not found"), 404, corsHeaders(req)))
        /\ UNCHANGED userDoc
  /\ UNCHANGED <<variant, req, env, restaurant, upstream, err, outbound, data, prompt>>

\* main.js 93-104, 320-334: the user lookup returns a record or fails
FetchUser ==
  /\ pc = "fetchUser"
  /\ calls' = Append(calls, "user")
  /\ \/ \E doc \in UserDocs(variant) :
          /\ userDoc' = doc
          /\ Pass("user", "subscription")
     \/ \E e \in ThrownErrors :
          /\ Fail("user", Json(ErrorBody(Str(<<"User not found">>), JUndef,
                                         IF variant = "analytics" THEN e.message ELSE JUndef),
                               404, corsHeaders(req)))
          /\ UNCHANGED userDoc
  /\ UNCHANGED <<variant, req, env, restaurant, upstream, err, outbound, data, prompt>>

\* main.js 106-116, 336-349
ValidateSubscription ==
  /\ pc = "subscription"
  /\ IF ~Truthy(subscriptionOf(variant, userDoc))
     THEN Fail("subscription",
               Json(ErrorWithMessage("AI Analytics requires an active subscription",
                                     UpgradeMessage), 403, corsHeaders(req)))
     ELSE Pass("subscription", "fetchRestaurant")
  /\ UNCHANGED <<variant, req, env, userDoc, restaurant, upstream, err, calls, outbound,
                 data, prompt>>

\* main.js 121-132, 354-365: the document fetch returns the restaurant or fails
FetchRestaurant ==
  /\ pc = "fetchRestaurant"
  /\ calls' = Append(calls, "restaurant")
  /\ \/ \E doc \in Restaurants :
          /\ restaurant' = doc
          /\ Pass("restaurant", "ownership")
     \/ /\ Fail("restaurant", Json(ErrorOnly("Restaurant not found"), 404, corsHeaders(req)))
        /\ UNCHANGED restaurant
  /\ UNCHANGED <<variant, req, env, userDoc, upstream, err, outbound, data, prompt>>

\* ValidateOwnership without the comparison of owner and caller
ValidateOwnership_Skipped ==
  /\ pc = "ownership"
  /\ Pass("ownership", "settings")
  /\ UNCHANGED <<variant, req, env, userDoc, restaurant, upstream, err, calls, outbound,
                 data, prompt>>

\* main.js 134-141, 367-374
ValidateOwnership ==
  /\ pc = "ownership"
  /\ IF restaurant.ownerId # req.headers.userId
     THEN Fail("ownership",
               Json(ErrorWithMessage("Access denied",
                      "You do not have permission to access this restaurant's AI analytics"),
                    403, corsHeaders(req)))
     ELSE Pass("ownership", "settings")
  /\ UNCHANGED <<variant, req, env, userDoc, restaurant, upstream, err, calls, outbound,
                 data, prompt>>

\* CheckAiAnalyticsEnabled whose 400 branch lacks the return
CheckAiAnalyticsEnabled_NoReturn ==
  /\ pc = "settings"
  /\ CASE aiAnalyticsEnabled(restaurant) = "throw" ->
            Fail("flag", Json(ErrorOnly("Invalid restaurant settings format"), 500,
                              corsHeaders(req)))
       [] aiAnalyticsEnabled(restaurant) = "false" ->
            /\ steps' = Append(steps, "flag")
            /\ failedAt' = "flag"
            /\ responses' = Append(responses,
                 Json(ErrorWithMessage("AI Analytics not enabled",
                        "Please enable AI Analytics in Settings -> Analytics AI"),
                      400, corsHeaders(req)))
            /\ pc' = "apiKey"
       [] OTHER -> Pass("flag", "apiKey")
  /\ UNCHANGED <<variant, req, env, userDoc, restaurant, upstream, err, calls, outbound,
                 data, prompt>>

\* main.js 145-165, 378-398
CheckAiAnalyticsEnabled ==
  /\ pc = "settings"
  /\ CASE aiAnalyticsEnabled(restaurant) = "throw" ->
            Fail("flag", Json(ErrorOnly("Invalid restaurant settings format"), 500,
                              corsHeaders(req)))
       [] aiAnalyticsEnabled(restaurant) = "false" ->
            Fail("flag", Json(ErrorWithMessage("AI Analytics not enabled",
                                "Please enable AI Analytics in Settings -> Analytics AI"),
                              400, corsHeaders(req)))
       [] OTHER -> Pass("flag", "apiKey")
  /\ UNCHANGED <<variant, req, env, userDoc, restaurant, upstream, err, calls, outbound,
                 data, prompt>>

\* main.js 167-175, 400-408
CheckApiKey ==
  /\ pc = "apiKey"
  /\ IF apiKeyMissing(env)
     THEN Fail("secret",
               Json(ErrorWithMessage("Service configuration error",
                      "AI Analytics service is not properly configured. Please contact support."),
                    500, corsHeaders(req)))
     ELSE Pass("secret", IF variant = "analytics" THEN "prompt" ELSE "fetch")
  /\ UNCHANGED <<variant, req, env, userDoc, restaurant, upstream, err, calls, outbound,
                 data, prompt>>

\* main.js 412-413: the analytics handler renders the prompt
GeneratePrompt ==
  /\ pc = "prompt"
  /\ data' = field(req, "analyticsData")
  /\ IF PromptThrows(data')
     THEN Throw(Error(JUndef, "TypeError")) /\ UNCHANGED prompt
     ELSE prompt' = generateAnalyticsPrompt(data') /\ pc' = "fetch" /\ UNCHANGED err
  /\ UNCHANGED <<variant, req, env, userDoc, restaurant, upstream, calls, outbound,
                 steps, failedAt, responses>>

\* main.js 179-192, 415-428: the upstream call answers, or fetch throws
CallClaude ==
  /\ pc = "fetch"
  /\ calls' = Append(calls, "claude")
  /\ outbound' = payload(variant, req, prompt)
  /\ \/ \E r \in UpstreamResponses : upstream' = r /\ pc' = "relay" /\ UNCHANGED err
     \/ \E e \in ThrownErrors : Throw(e) /\ UNCHANGED upstream
  /\ UNCHANGED <<variant, req, env, userDoc, restaurant, steps, failedAt, responses,
                 data, prompt>>

\* upstreamError without the fallback text
upstreamError_NoFallback(d) ==
  IF Truthy(Prop(d, "error")) THEN Prop(Prop(d, "error"), "message") ELSE JUndef

\* data.error?.message || 'Claude API request failed'
upstreamError(d) ==
  OrElse(IF Truthy(Prop(d, "error")) THEN Prop(Prop(d, "error"), "message") ELSE JUndef,
         Str(<<"Claude API request failed">>))

\* main.js 194-207, 430-443
Relay ==
  /\ pc = "relay"
  /\ LET parsed == JSONParse(upstream.text)
     IN  CASE parsed = SyntaxError ->
                Throw(Error(JUndef, "SyntaxError")) /\ UNCHANGED responses
           [] ~ok(upstream.status) /\ parsed = JNull ->
                Throw(Error(JUndef, "TypeError")) /\ UNCHANGED responses
           [] ~ok(upstream.status) /\ parsed # JNull ->
                /\ Return(Json(ErrorBody(upstreamError(parsed), JUndef, parsed),
                               upstream.status, NoHeaders))
                /\ UNCHANGED err
           [] OTHER ->
                Return(Json(parsed, 200, corsHeaders(req))) /\ UNCHANGED err
  /\ UNCHANGED <<variant, req, env, userDoc, restaurant, upstream, calls, outbound,
                 steps, failedAt, data, prompt>>

\* OuterCatch with == in place of ===: the string '404' counts as 404
OuterCatch_Loose ==
  /\ pc = "catch"
  /\ IF err.code \in {Num(<<"404">>), Str(<<"404">>)}
     THEN Return(Json(ErrorWithMessage("Restaurant not found", "Invalid restaurant ID"),
                      404, NoHeaders))
     ELSE Return(Json(ErrorBody(Str(<<"Internal server error">>), err.message, JUndef),
                      500, NoHeaders))
  /\ UNCHANGED <<variant, req, env, userDoc, restaurant, upstream, err, calls, outbound,
                 steps, failedAt, data, prompt>>

\* main.js 209-224, 445-460
OuterCatch ==
  /\ pc = "catch"
  /\ IF err.code = Num(<<"404">>)
     THEN Return(Json(ErrorWithMessage("Restaurant not found", "Invalid restaurant ID"),
                      404, NoHeaders))
     ELSE Return(Json(ErrorBody(Str(<<"Internal server error">>), err.message, JUndef),
                      500, NoHeaders))
  /\ UNCHANGED <<variant, req, env, userDoc, restaurant, upstream, err, calls, outbound,
                 steps, failedAt, data, prompt>>

Next ==
  \/ Preflight
  \/ CheckMethod
  \/ CheckAuthentication
  \/ ParseBody
  \/ ValidateInput
  \/ InitClient
  \/ FetchUser
  \/ ValidateSubscription
  \/ FetchRestaurant
  \/ ValidateOwnership
  \/ CheckAiAnalyticsEnabled
  \/ CheckApiKey
  \/ GeneratePrompt
  \/ CallClaude
  \/ Relay
  \/ OuterCatch

Spec == Init /\ [][Next]_vars

\* ------------------------------------------------------------------------
\* The renderer on its own: an input is drawn and rendered
\* ------------------------------------------------------------------------
PromptInit ==
  /\ variant = "analytics"
  /\ req = [method |-> "POST",
            headers |-> [origin |-> JUndef, referer |-> JUndef, userId |-> User1],
            body |-> JUndef]
  /\ env = JUndef
  /\ pc = "render"
  /\ userDoc = NoDoc
  /\ restaurant = NoDoc
  /\ upstream = NoUpstream
  /\ err = NoError
  /\ calls = <<>>
  /\ outbound = NoPayload
  /\ steps = <<>>
  /\ failedAt = "none"
  /\ responses = <<>>
  /\ data \in PromptInputs
  /\ prompt = NoPrompt

Render ==
  /\ pc = "render"
  /\ ~PromptThrows(data)
  /\ prompt' = generateAnalyticsPrompt(data)
  /\ pc' = "rendered"
  /\ UNCHANGED <<variant, req, env, userDoc, restaurant, upstream, err, calls, outbound,
                 steps, failedAt, responses, data>>

PromptNext == Render

PromptSpec == PromptInit /\ [][PromptNext]_vars


\* ------------------------------------------------------------------------
\* Properties
\* ------------------------------------------------------------------------
Done == pc = "done"
Response == responses[Len(responses)]
Called(c) == \E i \in 1..Len(calls) : calls[i] = c
Ran(step) == \E i \in 1..Len(steps) : steps[i] = step
NoIdentity == req.headers.userId.t = "undefined" \/ req.headers.userId = Str(<<>>)
ErrorIs(text) == Response.kind = "json" /\ Response.body.error = Str(<<text>>)

\* C1 as claimed: every request without the identity header is answered 401,
\* and no external call is made for it.
C1_EveryRequestWithoutIdentityGets401 ==
  NoIdentity => /\ calls = <<>>
                /\ Done => Response.status = 401

\* C1 amended: a request without the identity header never causes an external
\* call, whatever its method; when its method is POST the response is 401
\* 'Authentication required' (OPTIONS is answered 200 and any other method
\* 405 before the header is looked at).
C1_MissingIdentity ==
  NoIdentity =>
    /\ calls = <<>>
    /\ Done /\ req.method = "POST" => Response.status = 401 /\ ErrorIs("Authentication required")
    /\ Done /\ req.method = "OPTIONS" => Response.status = 200
    /\ Done /\ req.method \notin {"POST", "OPTIONS"} => Response.status = 405

C1_Witness ==
  /\ Done /\ req.method = "POST" /\ req.headers.userId = Str(<<>>)
  /\ Response.status = 401 /\ calls = <<>>

\* C2: once the restaurant is fetched and its ownerId differs from the
\* caller's user id, the upstream call is never issued and the response is
\* 403 'Access denied'.
C2_OwnerMismatchIs403 ==
  restaurant # NoDoc /\ restaurant.ownerId # req.headers.userId =>
    /\ ~Called("claude")
    /\ Done => Response.status = 403 /\ ErrorIs("Access denied")

C2_Witness ==
  /\ Done /\ restaurant # NoDoc /\ restaurant.ownerId = User2 /\ req.headers.userId = User1
  /\ Response.status = 403 /\ Truthy(subscriptionOf(variant, userDoc))

\* The settings of the fetched restaurant, read without the handler's code
SettingsAbsent == restaurant.settings.t = "undefined" \/ restaurant.settings = Str(<<>>)
SettingsUnparseable == ~SettingsAbsent /\ JSONParse(restaurant.settings.v) = SyntaxError
SettingsNull == ~SettingsAbsent /\ JSONParse(restaurant.settings.v) = JNull
FlagStrictlyTrue ==
  /\ ~SettingsAbsent
  /\ JSONParse(restaurant.settings.v).t = "object"
  /\ JSONParse(restaurant.settings.v).aiAnalyticsEnabled = JTrue

NotEnabledResponse == Response.status = 400 /\ ErrorIs("AI Analytics not enabled")

\* C3 as claimed: past the ownership check, settings without
\* aiAnalyticsEnabled === true give 400 'AI Analytics not enabled' and no
\* upstream call; only settings that are not JSON give 500.
C3_OnlyUnparseableSettingsGive500 ==
  Ran("flag") /\ ~FlagStrictlyTrue =>
    /\ ~Called("claude")
    /\ Done => IF SettingsUnparseable THEN Response.status = 500 ELSE NotEnabledResponse

\* C3 amended: past the ownership check, settings without
\* aiAnalyticsEnabled === true never lead to the upstream call; the response
\* is 500 'Invalid restaurant settings format' when the settings are not JSON
\* or are the JSON value null, and 400 'AI Analytics not enabled' otherwise.
C3_FlagNotTrue ==
  Ran("flag") /\ ~FlagStrictlyTrue =>
    /\ ~Called("claude")
    /\ Done => IF SettingsUnparseable \/ SettingsNull
               THEN Response.status = 500 /\ ErrorIs("Invalid restaurant settings format")
               ELSE NotEnabledResponse

C3_Witness ==
  /\ Done /\ Ran("flag")
  /\ restaurant.settings = Str(<<"{\"aiAnalyticsEnabled\":\"true\"}">>)
  /\ NotEnabledResponse

\* The upstream answer, read without the handler's code
UpstreamFailed == upstream # NoUpstream /\ (upstream.status < 200 \/ upstream.status > 299)
UpstreamBody == JSONParse(upstream.text)

\* C4 as claimed: when the upstream call returns a non-2xx status, the
\* response has the upstream status and its body is the upstream body.
C4_UpstreamFailureRelayedVerbatim ==
  Done /\ UpstreamFailed =>
    Response.status = upstream.status /\ Response.body = UpstreamBody

\* C4 amended: when the upstream call returns a non-2xx status and a body
\* that is JSON and not null, the response has the upstream status and the
\* body {error, details}: details is the upstream body and error is the
\* upstream body's error.message, or 'Claude API request failed' when that is
\* missing or empty.
\* When the upstream body is not JSON or is null, the response is 500
\* 'Internal server error'.
C4_UpstreamFailure ==
  Done /\ UpstreamFailed =>
    IF UpstreamBody \in {SyntaxError, JNull}
    THEN Response.status = 500 /\ ErrorIs("Internal server error")
    ELSE /\ Response.status = upstream.status
         /\ Response.body.details = UpstreamBody
         /\ Response.body.error =
              IF UpstreamBody.error.t = "object" /\ UpstreamBody.error.message # Str(<<>>)
              THEN UpstreamBody.error.message
              ELSE Str(<<"Claude API request failed">>)

C4_Witness ==
  /\ Done /\ upstream.status = 529 /\ Response.status = 529
  /\ Response.body.details = Overloaded /\ Response.body.error = Str(<<"Overloaded">>)

\* C5 as claimed: a request whose declared origin matches no allow-listed
\* origin causes no external call and never gets a 200 success response.
C5_UnlistedOriginRejected ==
  ~(\E allowed \in allowedOrigins :
      /\ OrElse(req.headers.origin, req.headers.referer).t = "string"
      /\ IsPrefix(allowed, OrElse(req.headers.origin, req.headers.referer).v)) =>
    /\ calls = <<>>
    /\ Done /\ req.method # "OPTIONS" => Response.status # 200

\* C6: a request with method OPTIONS is answered 200 with an empty body,
\* whatever its headers and body; no validation step runs and no external
\* call is made for it.
C6_PreflightAlways200 ==
  req.method = "OPTIONS" =>
    /\ calls = <<>>
    /\ steps = <<>>
    /\ pc \in {"start", "done"}
    /\ Done => /\ Len(responses) = 1
               /\ Response.status = 200
               /\ Response.kind = "text"
               /\ Response.body = Str(<<>>)

C6_Witness ==
  /\ Done /\ req.method = "OPTIONS" /\ req.headers.userId = JUndef
  /\ req.body = Str(<<"{not json">>) /\ Response.status = 200

\* C7: the rendered prompt lists exactly the first min(n, 10) products in
\* input order, numbered from 1, and exactly the first min(m, 20) comments in
\* input order, each cut to its first 200 characters at most.
C7_PromptCaps ==
  pc = "rendered" =>
    LET products == data.productSales.items
        comments == data.feedbackComments.items
        plines == prompt.productsText
        clines == prompt.commentsText
    IN  /\ Len(plines) = (IF Len(products) < 10 THEN Len(products) ELSE 10)
        /\ \A i \in 1..Len(plines) :
             /\ plines[i].index = i
             /\ plines[i].productName = products[i].productName
             /\ plines[i].timesOrdered = products[i].timesOrdered
        /\ Len(clines) = (IF Len(comments) < 20 THEN Len(comments) ELSE 20)
        /\ \A i \in 1..Len(clines) :
             /\ clines[i].index = i
             /\ Len(clines[i].text) <= 200
             /\ Len(clines[i].text) =
                  (IF Len(comments[i].v) < 200 THEN Len(comments[i].v) ELSE 200)
             /\ \A k \in 1..Len(clines[i].text) : clines[i].text[k] = comments[i].v[k]

C7_Witness ==
  /\ pc = "rendered"
  /\ Len(data.productSales.items) = 12 /\ Len(prompt.productsText) = 10
  /\ Len(data.feedbackComments.items) = 22 /\ Len(prompt.commentsText) = 20
  /\ Len(data.feedbackComments.items[1].v) = 201 /\ Len(prompt.commentsText[1].text) = 200

\* The secret, read without the handler's code
KeyMalformed == env.t = "undefined" \/ env.v = <<>> \/ env.v[1] # "sk-ant-"

NoRecognizedTier ==
  IF variant = "messages"
  THEN userDoc.subscription \notin {Str(<<"starter">>), Str(<<"growth">>), Str(<<"pro">>)}
  ELSE \/ userDoc.labels.t # "array"
       \/ \A i \in 1..Len(userDoc.labels.items) :
            userDoc.labels.items[i] \notin
              {Str(<<"planstarter">>), Str(<<"plangrowth">>), Str(<<"planpro">>)}

\* C9: when the fetched user record carries no recognized tier, the response
\* is 403 with the upgrade message, and neither the restaurant fetch nor the
\* upstream call is made.
C9_NoTierIs403 ==
  userDoc # NoDoc /\ NoRecognizedTier =>
    /\ calls = <<"user">>
    /\ restaurant = NoDoc
    /\ Done => /\ Response.status = 403
               /\ ErrorIs("AI Analytics requires an active subscription")
               /\ Response.body.message = Str(<<UpgradeMessage>>)

C9_Witness ==
  /\ Done /\ variant = "analytics" /\ userDoc # NoDoc
  /\ userDoc.labels = Arr(<<Str(<<"admin">>)>>)
  /\ Response.status = 403 /\ calls = <<"user">>

ValidationOrder ==
  <<"method", "identity", "body", "fields", "user", "subscription", "restaurant",
    "ownership", "flag", "secret">>

\* C10: the validation steps run in the fixed order; a failing step returns
\* the one response and nothing runs after it; the upstream call is issued at
\* most once, and only when every step has passed.
C10_ValidationOrder ==
  /\ Len(steps) <= Len(ValidationOrder)
  /\ \A i \in 1..Len(steps) : steps[i] = ValidationOrder[i]
  /\ Cardinality({i \in 1..Len(calls) : calls[i] = "claude"}) <= 1
  /\ failedAt # "none" =>
       /\ failedAt = steps[Len(steps)]
       /\ Done
       /\ Len(responses) = 1
       /\ ~Called("claude")
  /\ Called("claude") =>
       /\ steps = ValidationOrder
       /\ calls = <<"user", "restaurant", "claude">>
       /\ req.method = "POST"
       /\ ~NoIdentity
       /\ ~NoRecognizedTier
       /\ restaurant.ownerId = req.headers.userId
       /\ FlagStrictlyTrue
       /\ ~KeyMalformed

C10_Witness ==
  /\ Done /\ Called("claude") /\ steps = ValidationOrder
  /\ Response.status = 200 /\ failedAt = "none"


CallOrder == <<"user", "restaurant", "claude">>
FetchThrew == Called("claude") /\ upstream = NoUpstream

\* C11 as claimed: the external calls are made in the order user lookup,
\* restaurant fetch, upstream call, each at most once; a failed call ends the
\* request: 404 'User not found', 404 'Restaurant not found', and for the
\* upstream call the upstream status.
C11_UpstreamFailureGivesUpstreamStatus ==
  /\ Len(calls) <= 3
  /\ \A i \in 1..Len(calls) : calls[i] = CallOrder[i]
  /\ Done /\ failedAt = "user" => Response.status = 404 /\ ErrorIs("User not found")
  /\ Done /\ failedAt = "restaurant" => Response.status = 404 /\ ErrorIs("Restaurant not found")
  /\ Done /\ UpstreamFailed => Response.status = upstream.status

\* C11 amended: the external calls are made in the order user lookup,
\* restaurant fetch, upstream call, each at most once, and a failed call is
\* never repeated: it ends the request with one error response.  A failed
\* user lookup gives 404 'User not found', a failed restaurant fetch 404
\* 'Restaurant not found', an upstream answer with a non-2xx status and a
\* JSON body other than null the upstream status.  An upstream call that
\* throws, and a non-2xx answer whose body is not JSON or is null, end in the
\* outer catch: 404 'Restaurant not found' when the exception's code is 404,
\* else 500 'Internal server error'.
C11_SequentialCallsNoRetry ==
  /\ Len(calls) <= 3
  /\ \A i \in 1..Len(calls) : calls[i] = CallOrder[i]
  /\ failedAt = "user" => calls = <<"user">> /\ Done /\ Len(responses) = 1
  /\ failedAt = "restaurant" => calls = <<"user", "restaurant">> /\ Done /\ Len(responses) = 1
  /\ Done /\ failedAt = "user" => Response.status = 404 /\ ErrorIs("User not found")
  /\ Done /\ failedAt = "restaurant" => Response.status = 404 /\ ErrorIs("Restaurant not found")
  /\ Done /\ UpstreamFailed =>
       /\ Len(responses) = 1
       /\ IF UpstreamBody \in {SyntaxError, JNull}
          THEN Response.status = 500 /\ ErrorIs("Internal server error")
          ELSE Response.status = upstream.status
  /\ Done /\ FetchThrew =>
       /\ Len(responses) = 1
       /\ IF err.code.t = "number" /\ err.code.v = <<"404">>
          THEN Response.status = 404 /\ ErrorIs("Restaurant not found")
          ELSE Response.status = 500 /\ ErrorIs("Internal server error")

C11_Witness ==
  /\ Done /\ failedAt = "restaurant" /\ calls = <<"user", "restaurant">>
  /\ Response.status = 404 /\ ErrorIs("Restaurant not found")


ErrorStatuses == {400, 401, 403, 404, 405, 500}
ErrorFields == {"t", "error", "message", "details"}

Thrown == err # NoError
CodeIs404 == err.code.t = "number" /\ err.code.v = <<"404">>

\* C13: an exception thrown in the try block (building the Appwrite client,
\* the upstream fetch, parsing the upstream body, rendering the prompt) is
\* caught by the outer catch and answered with one response: 404 'Restaurant
\* not found' when its code is the number 404, else 500 'Internal server
\* error' with the exception's message; nothing else runs after the throw.
C13_OuterCatch ==
  Thrown =>
    /\ pc \in {"catch", "done"}
    /\ failedAt = "none"
    /\ pc = "catch" => responses = <<>> /\ ENABLED OuterCatch
    /\ Done =>
         /\ Len(responses) = 1
         /\ IF CodeIs404
            THEN /\ Response.status = 404
                 /\ ErrorIs("Restaurant not found")
            ELSE /\ Response.status = 500
                 /\ ErrorIs("Internal server error")
                 /\ Response.body.message = err.message

C13_Witness ==
  /\ Done /\ Thrown /\ CodeIs404 /\ FetchThrew
  /\ Response.status = 404 /\ ErrorIs("Restaurant not found")

\* The CORS headers the request is entitled to, read without the handler's
\* code
DeclaredOrigin ==
  IF req.headers.origin.t = "string" /\ req.headers.origin.v # <<>>
  THEN req.headers.origin ELSE req.headers.referer
OriginListed ==
  /\ DeclaredOrigin.t = "string"
  /\ \E allowed \in {<<"https://quickserve.io">>, <<"http://localhost:5173">>,
                     <<"http://localhost:3000">>} :
       /\ Len(allowed) <= Len(DeclaredOrigin.v)
       /\ \A k \in 1..Len(allowed) : DeclaredOrigin.v[k] = allowed[k]
ExpectedCors ==
  [allowOrigin |-> IF OriginListed THEN DeclaredOrigin ELSE Str(<<"https://quickserve.io">>),
   allowMethods |-> "POST, OPTIONS",
   allowHeaders |-> "Content-Type, X-Appwrite-Project, X-Appwrite-JWT"]

\* C14 as claimed: every response carries the three CORS headers, with
\* Access-Control-Allow-Origin equal to the request's origin when that starts
\* with an allow-listed origin and 'https://quickserve.io' otherwise.
C14_EveryResponseHasCors ==
  \A i \in 1..Len(responses) : responses[i].headers = ExpectedCors


====
